---------------------------- MODULE Spec2Model ----------------------------
(***************************************************************************)
(* A model of src/common/replay_buffer.py: the segment tree (SegmentTree,  *)
(* SumSegmentTree, MinSegmentTree), the uniform ring store (ReplayBuffer), *)
(* the prioritized store (PrioritizedReplayBuffer) and the store of        *)
(* multi-step segments of parallel environments (VecReplayBuffer).         *)
(*                                                                         *)
(* Numbers.  The code works on Python floats; the model works on integers  *)
(* and, where the code divides, on exact fractions <<num, den>>.  Float    *)
(* rounding is outside the model.  A Python exception is an outcome: every *)
(* operation yields a record whose field err is "none" or the name of the  *)
(* exception that ended the call.                                          *)
(***************************************************************************)
EXTENDS Integers, Sequences, FiniteSets, TLC

VARIABLES
    tree,          \* SpecTree: the SegmentTree under test, [capacity, op, value]
    cls,           \* the class of the store: "ReplayBuffer", "PrioritizedReplayBuffer", "VecReplayBuffer", or "none"
    maxsize,       \* ReplayBuffer._maxsize
    storage,       \* ReplayBuffer._storage, a sequence (slot i is storage[i+1])
    next_idx,      \* ReplayBuffer._next_idx
    it_sum,        \* PrioritizedReplayBuffer._it_sum
    it_min,        \* PrioritizedReplayBuffer._it_min
    max_priority,  \* PrioritizedReplayBuffer._max_priority
    alpha,         \* PrioritizedReplayBuffer._alpha
    beta,          \* PrioritizedReplayBuffer.beta
    ret,           \* the last call: [op, args, err, val]
    nadd,          \* history: the number of add calls so far
    okmax,         \* history: max of 1.0 and every priority of a successful update_priorities call
    passedmax,     \* history: max of 1.0 and every priority of any update_priorities call
    written,       \* history: per leaf of tree, the value of its latest set (the neutral element before any)
    lastprio,      \* history: per slot of storage, the priority the latest add or update_priorities gave it
    vec            \* the VecReplayBuffer, a record of its fields

vars == <<tree, cls, maxsize, storage, next_idx, it_sum, it_min, max_priority,
          alpha, beta, ret, nadd, okmax, passedmax, written, lastprio, vec>>

storeVars == <<cls, maxsize, storage, next_idx, it_sum, it_min, max_priority,
               alpha, beta, nadd, okmax, passedmax, lastprio, vec>>

treeVars == <<tree, written>>

-----------------------------------------------------------------------------
(* Bounds of the model. *)

\* Tree capacities of SpecTree are 2^0 .. 2^MaxLogCap.
MaxLogCap == 2
\* Depth at which the interpreter's recursion limit ends a recursion (a
\* terminating _reduce_helper call nests at most MaxLogCap + 1 deep).
RecursionLimit == 8
\* Store capacities (size) are 1 .. MaxSize.
MaxSize == 2
\* At most MaxAdds add calls are made on a store.
MaxAdds == 5

\* float('inf'), the neutral element of MinSegmentTree: above every mass.
Inf == 1000000

\* The leaf values written by set in SpecTree (a fresh leaf holds the
\* neutral element, 0 or inf).
LeafValues == {1, 2}
\* The denominators of the targets handed to find_prefixsum_idx in SpecTree.
TargetDens == {1, 2}
\* The priorities handed to update_priorities; 0 is not a valid one.
Priorities == 0 .. 3
\* The exponents alpha and beta a prioritized store is constructed with.
Alphas == {0, 1, 2}
Betas == {0, 1}
\* The batch sizes handed to sample.
BatchSizes == {1, 2}
\* The lengths of the arrays handed to update_priorities.
UpdateLens == {0, 1, 2}

-----------------------------------------------------------------------------
(* Arithmetic helpers. *)

Min(a, b) == IF a <= b THEN a ELSE b

Max(a, b) == IF a >= b THEN a ELSE b

RECURSIVE Pow(_, _)
Pow(b, e) == IF e = 0 THEN 1 ELSE b * Pow(b, e - 1)

Ok(v) == [err |-> "none", val |-> v]

Raise(e) == [err |-> e, val |-> 0]

\* A list index as Python resolves it on a list of length n: the position,
\* or -1 when the access raises IndexError.
PyIndex(n, i) ==
    IF 0 <= i /\ i < n THEN i
    ELSE IF -n <= i /\ i < 0 THEN i + n
    ELSE -1

\* a % n as Python computes it for n # 0: the result has the sign of n.
PyMod(a, n) == IF n > 0 THEN a % n ELSE -((-a) % (-n))

-----------------------------------------------------------------------------
(* SegmentTree *)

\* operator.add (SumSegmentTree) or min (MinSegmentTree).
Operation(op, a, b) == IF op = "add" THEN a + b ELSE Min(a, b)

NeutralElement(op) == IF op = "add" THEN 0 ELSE Inf

\* SegmentTree.__init__: capacity is a positive power of two.
NewTree(capacity, op) ==
    [capacity |-> capacity, op |-> op,
     value |-> [k \in 0 .. 2 * capacity - 1 |-> NeutralElement(op)]]

\* _reduce_helper.  depth counts the nested calls: past RecursionLimit the
\* call ends in RecursionError; a read of value[node] past the list ends in
\* IndexError.
RECURSIVE ReduceHelper(_, _, _, _, _, _, _)
ReduceHelper(t, start, end, node, node_start, node_end, depth) ==
    IF depth > RecursionLimit THEN Raise("RecursionError")
    ELSE IF start = node_start /\ end = node_end
    THEN IF PyIndex(2 * t.capacity, node) = -1 THEN Raise("IndexError")
         ELSE Ok(t.value[PyIndex(2 * t.capacity, node)])
    ELSE LET mid == (node_start + node_end) \div 2 IN
         IF end <= mid
         THEN ReduceHelper(t, start, end, 2 * node, node_start, mid, depth + 1)
         ELSE IF mid + 1 <= start
         THEN ReduceHelper(t, start, end, 2 * node + 1, mid + 1, node_end, depth + 1)
         ELSE LET l == ReduceHelper(t, start, mid, 2 * node, node_start, mid, depth + 1)
                  r == ReduceHelper(t, mid + 1, end, 2 * node + 1, mid + 1, node_end, depth + 1)
              IN  IF l.err # "none" THEN l
                  ELSE IF r.err # "none" THEN r
                  ELSE Ok(Operation(t.op, l.val, r.val))

\* reduce(start, end).  endOpt is <<>> for end=None and <<e>> for end=e.
Reduce(t, start, endOpt) ==
    LET end0 == IF endOpt = <<>> THEN t.capacity ELSE endOpt[1]
        end1 == IF end0 < 0 THEN end0 + t.capacity ELSE end0
        end2 == end1 - 1
    IN  ReduceHelper(t, start, end2, 1, 0, t.capacity - 1, 1)

\* The loop of __setitem__: recompute the ancestors from idx up to the root.
RECURSIVE Propagate(_, _, _)
Propagate(value, op, idx) ==
    IF idx >= 1
    THEN Propagate([value EXCEPT ![idx] = Operation(op, value[2 * idx], value[2 * idx + 1])],
                   op, idx \div 2)
    ELSE value

\* A plausible slip of __setitem__: the leaf is written, no ancestor is.
SetItemLeafOnly(t, idx, val) ==
    LET pos == PyIndex(2 * t.capacity, idx + t.capacity) IN
    IF pos = -1 THEN [err |-> "IndexError", tree |-> t]
    ELSE [err |-> "none", tree |-> [t EXCEPT !.value[pos] = val]]

\* __setitem__(idx, val): the call's outcome and the tree it leaves.
SetItem(t, idx, val) ==
    LET leaf == idx + t.capacity
        pos == PyIndex(2 * t.capacity, leaf)
    IN  IF pos = -1 THEN [err |-> "IndexError", tree |-> t]
        ELSE [err |-> "none",
              tree |-> [t EXCEPT !.value =
                          Propagate([t.value EXCEPT ![pos] = val], t.op, leaf \div 2)]]

\* __getitem__(idx)
GetItem(t, idx) ==
    IF ~(0 <= idx /\ idx < t.capacity) THEN Raise("AssertionError")
    ELSE Ok(t.value[t.capacity + idx])

\* A plausible slip of the descent test: >= for >.
GoLeftGe(left, num, den) == left * den >= num

\* The test of find_prefixsum_idx's loop, value[2 * idx] > prefixsum, with
\* prefixsum the fraction num / den.
GoLeft(left, num, den) == left * den > num

\* The loop of find_prefixsum_idx on the fraction num / den.
RECURSIVE Descend(_, _, _, _)
Descend(t, idx, num, den) ==
    IF idx < t.capacity
    THEN IF GoLeft(t.value[2 * idx], num, den)
         THEN Descend(t, 2 * idx, num, den)
         ELSE Descend(t, 2 * idx + 1, num - t.value[2 * idx] * den, den)
    ELSE idx - t.capacity

\* find_prefixsum_idx(prefixsum), prefixsum = num / den with den >= 1.  The
\* tolerance 1e-5 of the assertion admits no fraction above sum() whose
\* denominator is as small as the model's.
FindPrefixsumIdx(t, num, den) ==
    LET total == Reduce(t, 0, <<>>) IN
    IF total.err # "none" THEN total
    ELSE IF ~(0 <= num /\ num <= total.val * den) THEN Raise("AssertionError")
    ELSE Ok(Descend(t, 1, num, den))

-----------------------------------------------------------------------------
(* What the claims compare the tree with: the raw leaves. *)

Leaf(t, i) == t.value[t.capacity + i]

\* The left-to-right fold of the operation over leaves start .. end-1.
RECURSIVE LeafFold(_, _, _)
LeafFold(t, start, end) ==
    IF start >= end THEN NeutralElement(t.op)
    ELSE Operation(t.op, LeafFold(t, start, end - 1), Leaf(t, end - 1))


AllLeavesPositive(t) == \A i \in 0 .. t.capacity - 1 : Leaf(t, i) > 0

-----------------------------------------------------------------------------
(* SpecTree: one SegmentTree, driven by set, reduce and find_prefixsum_idx. *)

Capacities == {Pow(2, k) : k \in 0 .. MaxLogCap}

Call(op, args, err, val) == [op |-> op, args |-> args, err |-> err, val |-> val]

NoCall == Call("none", <<>>, "none", 0)

\* No VecReplayBuffer exists.
NoVec == [nenv |-> 0]

\* The history of a tree no set has touched.
Unwritten(t) == [i \in 0 .. t.capacity - 1 |-> NeutralElement(t.op)]

\* The store's variables while no store exists.
NoStore ==
    /\ cls = "none"
    /\ maxsize = 0
    /\ storage = <<>>
    /\ next_idx = 0
    /\ it_sum = NewTree(1, "add")
    /\ it_min = NewTree(1, "min")
    /\ max_priority = 1
    /\ alpha = 0
    /\ beta = 0
    /\ nadd = 0
    /\ okmax = 1
    /\ passedmax = 1
    /\ lastprio = <<>>
    /\ vec = NoVec

\* SumSegmentTree(capacity) or MinSegmentTree(capacity), freshly constructed.
TreeInit ==
    /\ \E c \in Capacities, op \in {"add", "min"} : tree = NewTree(c, op)
    /\ written = Unwritten(tree)
    /\ ret = NoCall
    /\ NoStore

\* tree[i] = v with i in [0, capacity)
TreeSet ==
    \E i \in 0 .. tree.capacity - 1, v \in LeafValues :
        LET r == SetItem(tree, i, v) IN
        /\ ret.op = "none"
        /\ tree' = r.tree
        /\ ret' = Call("set", <<i, v>>, r.err, 0)
        /\ written' = IF r.err = "none" THEN [written EXCEPT ![i] = v] ELSE written
        /\ UNCHANGED storeVars

\* tree.reduce(start, end) with 0 <= start <= end <= capacity
TreeReduce ==
    \E start \in 0 .. tree.capacity, end \in 0 .. tree.capacity :
        /\ ret.op = "none"
        /\ start <= end
        /\ LET r == Reduce(tree, start, <<end>>) IN
           ret' = Call("reduce", <<start, end>>, r.err, r.val)
        /\ UNCHANGED <<treeVars, storeVars>>

\* tree.reduce(), SumSegmentTree.sum() and MinSegmentTree.min() with the
\* default arguments
TreeReduceAll ==
    /\ ret.op = "none"
    /\ LET r == Reduce(tree, 0, <<>>) IN
       ret' = Call("reduce_all", <<>>, r.err, r.val)
    /\ UNCHANGED <<treeVars, storeVars>>

\* sum_tree.find_prefixsum_idx(num / den), a target from 0 to just past the
\* total
TreeFind ==
    /\ ret.op = "none"
    /\ tree.op = "add"
    /\ \E den \in TargetDens :
          \E num \in 0 .. tree.value[1] * den + 1 :
             LET r == FindPrefixsumIdx(tree, num, den) IN
             ret' = Call("find_prefixsum_idx", <<num, den>>, r.err, r.val)
    /\ UNCHANGED <<treeVars, storeVars>>

\* The caller takes the outcome of its call; it makes its next call after that.
Resume ==
    /\ ret.op # "none"
    /\ ret' = NoCall
    /\ UNCHANGED <<treeVars, storeVars>>

TreeNext == TreeSet \/ TreeReduce \/ TreeReduceAll \/ TreeFind \/ Resume

SpecTree == TreeInit /\ [][TreeNext]_vars

-----------------------------------------------------------------------------
(* Claims about the segment tree, checked under SpecTree. *)

\* C1: after every set(i, v) with i in [0, capacity), starting from a fresh
\* tree, every internal node k in [1, capacity) holds
\* operation(value[2k], value[2k+1]).
TreeConsistent ==
    \A k \in 1 .. tree.capacity - 1 :
        tree.value[k] = Operation(tree.op, tree.value[2 * k], tree.value[2 * k + 1])

\* C1 witness: a set on a tree with internal nodes has changed the root.
TreeConsistentWitness ==
    /\ ret.op = "set"
    /\ tree.capacity = Pow(2, MaxLogCap)
    /\ tree.value[1] # NeutralElement(tree.op)
    /\ \A i \in 0 .. tree.capacity - 1 : Leaf(tree, i) # NeutralElement(tree.op)

\* C2 (as stated): for all 0 <= start <= end <= capacity, reduce(start, end)
\* returns the left-to-right fold of the operation over leaves start..end-1,
\* the neutral element for the empty range; reduce() returns the fold of all
\* leaves.
ReduceIsFold ==
    /\ ret.op = "reduce" =>
          /\ ret.err = "none"
          /\ ret.val = LeafFold(tree, ret.args[1], ret.args[2])
    /\ ret.op = "reduce_all" =>
          /\ ret.err = "none"
          /\ ret.val = LeafFold(tree, 0, tree.capacity)

\* What the code does keep of C2: a non-empty range and the default range
\* are folded.
ReduceNonEmptyIsFold ==
    /\ (ret.op = "reduce" /\ ret.args[1] < ret.args[2]) =>
          /\ ret.err = "none"
          /\ ret.val = LeafFold(tree, ret.args[1], ret.args[2])
    /\ ret.op = "reduce_all" =>
          /\ ret.err = "none"
          /\ ret.val = LeafFold(tree, 0, tree.capacity)

\* An empty range never returns: the recursion has no base case for it.
ReduceEmptyRaises ==
    (ret.op = "reduce" /\ ret.args[1] = ret.args[2]) => ret.err = "RecursionError"

\* sum of leaves 0..i-1 <= num / den < sum of leaves 0..i
Brackets(t, i, num, den) ==
    /\ LeafFold(t, 0, i) * den <= num
    /\ num < LeafFold(t, 0, i + 1) * den

\* C3: on a sum tree whose leaves are all positive, for every target in
\* [0, total), find_prefixsum_idx(target) returns the one index i with
\* (sum of leaves 0..i-1) <= target < (sum of leaves 0..i).
PrefixSumInverse ==
    (/\ ret.op = "find_prefixsum_idx"
     /\ AllLeavesPositive(tree)
     /\ ret.args[1] < LeafFold(tree, 0, tree.capacity) * ret.args[2])
    => /\ ret.err = "none"
       /\ ret.val \in 0 .. tree.capacity - 1
       /\ Brackets(tree, ret.val, ret.args[1], ret.args[2])
       /\ \A i \in 0 .. tree.capacity - 1 :
             Brackets(tree, i, ret.args[1], ret.args[2]) => i = ret.val

\* C3 witness: a target that equals a prefix sum lands in the last leaf of
\* the largest tree.
PrefixSumInverseWitness ==
    /\ ret.op = "find_prefixsum_idx"
    /\ tree.capacity = Pow(2, MaxLogCap)
    /\ AllLeavesPositive(tree)
    /\ ret.err = "none"
    /\ ret.val = tree.capacity - 1
    /\ ret.args[2] = 2
    /\ ret.args[1] = LeafFold(tree, 0, tree.capacity - 1) * 2
    /\ \E i \in 0 .. tree.capacity - 1 : Leaf(tree, i) = 2

-----------------------------------------------------------------------------
(* ReplayBuffer and PrioritizedReplayBuffer *)

\* A plausible slip of add: the overwrite branch is lost, every add appends.
BaseAddAppendOnly(st, nx, size, data) ==
    IF size = 0
    THEN [err |-> "ZeroDivisionError", storage |-> Append(st, data), next_idx |-> nx]
    ELSE [err |-> "none", storage |-> Append(st, data), next_idx |-> PyMod(nx + 1, size)]

\* ReplayBuffer.add: the call's outcome, the storage and the cursor it
\* leaves.  The list is written before the cursor is advanced, so a size of
\* 0 ends the call in ZeroDivisionError with the transition stored.
BaseAdd(st, nx, size, data) ==
    LET pos == PyIndex(Len(st), nx)
        st1 == IF nx >= Len(st) THEN Append(st, data)
               ELSE [st EXCEPT ![pos + 1] = data]
    IN  IF nx < Len(st) /\ pos = -1
        THEN [err |-> "IndexError", storage |-> st, next_idx |-> nx]
        ELSE IF size = 0
        THEN [err |-> "ZeroDivisionError", storage |-> st1, next_idx |-> nx]
        ELSE [err |-> "none", storage |-> st1, next_idx |-> PyMod(nx + 1, size)]

\* ReplayBuffer._encode_sample: the stored transitions at idxes, in order.
EncodeSample(st, idxes) ==
    IF \E k \in 1 .. Len(idxes) : PyIndex(Len(st), idxes[k]) = -1
    THEN Raise("IndexError")
    ELSE Ok([k \in 1 .. Len(idxes) |-> st[PyIndex(Len(st), idxes[k]) + 1]])

\* The loop of PrioritizedReplayBuffer.__init__ that sizes the trees.
RECURSIVE GrowCapacity(_, _)
GrowCapacity(it_capacity, size) ==
    IF it_capacity < size THEN GrowCapacity(2 * it_capacity, size) ELSE it_capacity

\* A plausible slip of add: only the sum tree is given the mass.
AddMassSumOnly(sumt, mint, idx, mass) ==
    LET a == SetItem(sumt, idx, mass) IN
    [err |-> a.err, it_sum |-> a.tree, it_min |-> mint]

\* The two tree writes of PrioritizedReplayBuffer.add.
AddMass(sumt, mint, idx, mass) ==
    LET a == SetItem(sumt, idx, mass) IN
    IF a.err # "none" THEN [err |-> a.err, it_sum |-> sumt, it_min |-> mint]
    ELSE LET b == SetItem(mint, idx, mass) IN
         [err |-> b.err, it_sum |-> a.tree, it_min |-> b.tree]

\* A plausible slip of update_priorities: only the sum tree is given the mass.
UpdateMassSumOnly(sumt, mint, idx, mass) ==
    LET a == SetItem(sumt, idx, mass) IN
    [err |-> a.err, it_sum |-> a.tree, it_min |-> mint]

\* The two tree writes of PrioritizedReplayBuffer.update_priorities.
UpdateMass(sumt, mint, idx, mass) ==
    LET a == SetItem(sumt, idx, mass) IN
    IF a.err # "none" THEN [err |-> a.err, it_sum |-> sumt, it_min |-> mint]
    ELSE LET b == SetItem(mint, idx, mass) IN
         [err |-> b.err, it_sum |-> a.tree, it_min |-> b.tree]

\* The first failing outcome of a sequence of outcomes, or "none".
RECURSIVE FirstErr(_, _)
FirstErr(rs, k) ==
    IF k > Len(rs) THEN "none"
    ELSE IF rs[k].err # "none" THEN rs[k].err
    ELSE FirstErr(rs, k + 1)

\* The number of equally spaced values random.random() takes in the model:
\* k / grid for k in 0 .. grid-1, with grid the mass that _sample_proportional
\* spreads the draws over, so that every integer threshold can be drawn.
RandomGrid(sumt, n) ==
    LET p_total == Reduce(sumt, 0, <<n - 1>>) IN
    IF p_total.err = "none" /\ p_total.val >= 1 THEN p_total.val ELSE 1

\* _sample_proportional(batch_size) on a store of n transitions; draws[i] is
\* the numerator of the i-th value of random.random().  The i-th mass (i from
\* 0) is random * every_range_len + i * every_range_len, the fraction
\* (draws[i+1] + i * p_total) / batch_size.
SampleProportional(sumt, n, batch_size, draws) ==
    LET p_total == Reduce(sumt, 0, <<n - 1>>) IN
    IF p_total.err # "none" THEN p_total
    ELSE LET res == [i \in 1 .. batch_size |->
                        FindPrefixsumIdx(sumt,
                            IF p_total.val = 0 THEN 0
                            ELSE draws[i] + (i - 1) * p_total.val,
                            batch_size)]
         IN  IF FirstErr(res, 1) # "none" THEN Raise(FirstErr(res, 1))
             ELSE Ok([i \in 1 .. batch_size |-> res[i].val])

\* Fractions <<num, den>>; den = 0 stands for numpy's inf.
FracScale(f, n) == <<f[1] * n, f[2]>>

FracPowNeg(f, e) == <<Pow(f[2], e), Pow(f[1], e)>>

FracDiv(f, g) == <<f[1] * g[2], f[2] * g[1]>>

\* A plausible slip of the weights: no division by max_weight.
WeightUnnormalised(mass, it_sum_all, n, max_weight) ==
    FracPowNeg(FracScale(<<mass, it_sum_all>>, n), beta)

\* One entry of weights: (p_sample * len) ** (-beta) / max_weight.
Weight(mass, it_sum_all, n, max_weight) ==
    FracDiv(FracPowNeg(FracScale(<<mass, it_sum_all>>, n), beta), max_weight)

\* PrioritizedReplayBuffer.sample(batch_size).
PrioritizedSample(batch_size, draws) ==
    LET n == Len(storage)
        idxes == SampleProportional(it_sum, n, batch_size, draws)
        total == Reduce(it_sum, 0, <<>>)
        least == Reduce(it_min, 0, <<>>)
    IN  IF idxes.err # "none" THEN idxes
        ELSE IF total.err # "none" THEN total
        ELSE IF least.err # "none" THEN least
        ELSE IF total.val = 0 THEN Raise("ZeroDivisionError")
        ELSE IF least.val * n = 0 /\ beta > 0 THEN Raise("ZeroDivisionError")
        ELSE LET p_min == <<least.val, total.val>>
                 max_weight == FracPowNeg(FracScale(p_min, n), beta)
                 masses == [k \in 1 .. batch_size |-> GetItem(it_sum, idxes.val[k])]
                 encoded == EncodeSample(storage, idxes.val)
             IN  IF FirstErr(masses, 1) # "none" THEN Raise(FirstErr(masses, 1))
                 ELSE IF encoded.err # "none" THEN encoded
                 ELSE Ok([idxes |-> idxes.val,
                          weights |-> [k \in 1 .. batch_size |->
                                          Weight(masses[k].val, total.val, n, max_weight)],
                          batch |-> encoded.val])

\* A plausible slip of the index check: <= for <.
IndexInRangeLe(idx, n) == 0 <= idx /\ idx <= n

\* A plausible slip of the index check: slot 0 is refused.
IndexInRangePositive(idx, n) == 0 < idx /\ idx < n

\* assert 0 <= idx < len(self._storage)
IndexInRange(idx, n) == 0 <= idx /\ idx < n

\* assert priority > 0
PriorityValid(priority) == priority > 0

UpdateOutcome(err, what, sumt, mint, maxp) ==
    [err |-> err, what |-> what, it_sum |-> sumt, it_min |-> mint, max_priority |-> maxp]

\* The loop of update_priorities from element k on: each element is checked
\* and then applied, so an element that fails leaves the earlier ones applied.
RECURSIVE UpdateLoop(_, _, _, _, _, _, _)
UpdateLoop(sumt, mint, maxp, idxes, priorities, k, n) ==
    IF k > Min(Len(idxes), Len(priorities))
    THEN UpdateOutcome("none", "", sumt, mint, maxp)
    ELSE IF ~PriorityValid(priorities[k])
    THEN UpdateOutcome("AssertionError", "priority > 0", sumt, mint, maxp)
    ELSE IF ~IndexInRange(idxes[k], n)
    THEN UpdateOutcome("AssertionError", "0 <= idx < len(self._storage)", sumt, mint, maxp)
    ELSE LET m == UpdateMass(sumt, mint, idxes[k], Pow(priorities[k], alpha)) IN
         IF m.err # "none" THEN UpdateOutcome(m.err, "", m.it_sum, m.it_min, maxp)
         ELSE UpdateLoop(m.it_sum, m.it_min, Max(maxp, priorities[k]),
                         idxes, priorities, k + 1, n)

\* PrioritizedReplayBuffer.update_priorities(idxes, priorities).
UpdatePrioritiesCall(idxes, priorities) ==
    IF Len(idxes) # Len(priorities)
    THEN UpdateOutcome("AssertionError", "len(idxes) == len(priorities)",
                       it_sum, it_min, max_priority)
    ELSE UpdateLoop(it_sum, it_min, max_priority, idxes, priorities, 1, Len(storage))

-----------------------------------------------------------------------------
(* Spec: one store, uniform or prioritized, driven by add, sample and       *)
(* update_priorities.  The transition added by the j-th add call (from 0)   *)
(* is the number j.                                                         *)

RECURSIVE SeqMax(_, _)
SeqMax(q, least) == IF q = <<>> THEN least ELSE Max(Head(q), SeqMax(Tail(q), least))

Seqs(S, n) == [1 .. n -> S]

\* The history lastprio after update_priorities(idxes, priorities): element k
\* gives slot idxes[k] the priority priorities[k]; the call stops at the first
\* element it rejects, and a call with arrays of unequal length gives none.
RECURSIVE Assigned(_, _, _, _)
Assigned(lp, idxes, priorities, k) ==
    IF Len(idxes) # Len(priorities) \/ k > Len(idxes) THEN lp
    ELSE IF priorities[k] > 0 /\ idxes[k] \in 0 .. Len(lp) - 1
    THEN Assigned([lp EXCEPT ![idxes[k] + 1] = priorities[k]], idxes, priorities, k + 1)
    ELSE lp

\* ReplayBuffer(size, device)
InitReplayBuffer(size) ==
    /\ cls = "ReplayBuffer"
    /\ maxsize = size
    /\ storage = <<>>
    /\ next_idx = 0
    /\ it_sum = NewTree(1, "add")
    /\ it_min = NewTree(1, "min")
    /\ max_priority = 1
    /\ alpha = 0
    /\ beta = 0

\* PrioritizedReplayBuffer(size, device, alpha, beta)
InitPrioritizedReplayBuffer(size, a, b) ==
    /\ cls = "PrioritizedReplayBuffer"
    /\ maxsize = size
    /\ storage = <<>>
    /\ next_idx = 0
    /\ alpha = a
    /\ it_sum = NewTree(GrowCapacity(1, size), "add")
    /\ it_min = NewTree(GrowCapacity(1, size), "min")
    /\ max_priority = 1
    /\ beta = b

Init ==
    /\ tree = NewTree(1, "add")
    /\ written = Unwritten(tree)
    /\ vec = NoVec
    /\ lastprio = <<>>
    /\ ret = NoCall
    /\ nadd = 0
    /\ okmax = 1
    /\ passedmax = 1
    /\ \E size \in 1 .. MaxSize :
          \/ InitReplayBuffer(size)
          \/ \E a \in Alphas, b \in Betas : InitPrioritizedReplayBuffer(size, a, b)

\* ReplayBuffer.add(o, a, r, o_, d)
Add ==
    /\ ret.op = "none"
    /\ cls = "ReplayBuffer"
    /\ nadd < MaxAdds
    /\ LET b == BaseAdd(storage, next_idx, maxsize, nadd) IN
       /\ storage' = b.storage
       /\ next_idx' = b.next_idx
       /\ ret' = Call("add", <<nadd>>, b.err, next_idx)
    /\ nadd' = nadd + 1
    /\ UNCHANGED <<treeVars, vec, cls, maxsize, it_sum, it_min, max_priority, alpha, beta,
                   okmax, passedmax, lastprio>>

\* ReplayBuffer.sample(batch_size): random.choice(range(0)) raises IndexError.
Sample ==
    /\ ret.op = "none"
    /\ cls = "ReplayBuffer"
    /\ \E batch_size \in BatchSizes :
          IF Len(storage) = 0
          THEN ret' = Call("sample", <<batch_size>>, "IndexError", 0)
          ELSE \E idxes \in Seqs(0 .. Len(storage) - 1, batch_size) :
                  LET e == EncodeSample(storage, idxes) IN
                  ret' = Call("sample", <<batch_size>>, e.err,
                              [idxes |-> idxes, batch |-> e.val])
    /\ UNCHANGED <<treeVars, storeVars>>

\* PrioritizedReplayBuffer.add(*args)
PrioritizedAdd ==
    /\ ret.op = "none"
    /\ cls = "PrioritizedReplayBuffer"
    /\ nadd < MaxAdds
    /\ LET idx == next_idx
           b == BaseAdd(storage, next_idx, maxsize, nadd)
           m == IF b.err # "none"
                THEN [err |-> b.err, it_sum |-> it_sum, it_min |-> it_min]
                ELSE AddMass(it_sum, it_min, idx, Pow(max_priority, alpha))
       IN  /\ storage' = b.storage
           /\ next_idx' = b.next_idx
           /\ it_sum' = m.it_sum
           /\ it_min' = m.it_min
           /\ ret' = Call("add", <<nadd>>, m.err, idx)
           /\ lastprio' = IF m.err # "none" THEN lastprio
                          ELSE IF idx >= Len(lastprio) THEN Append(lastprio, max_priority)
                          ELSE [lastprio EXCEPT ![PyIndex(Len(lastprio), idx) + 1] = max_priority]
    /\ nadd' = nadd + 1
    /\ UNCHANGED <<treeVars, vec, cls, maxsize, max_priority, alpha, beta, okmax, passedmax>>

\* PrioritizedReplayBuffer.sample(batch_size)
PrioritizedSampleStep ==
    /\ ret.op = "none"
    /\ cls = "PrioritizedReplayBuffer"
    /\ \E batch_size \in BatchSizes :
          \E draws \in Seqs(0 .. RandomGrid(it_sum, Len(storage)) - 1, batch_size) :
             LET r == PrioritizedSample(batch_size, draws) IN
             ret' = Call("sample", <<batch_size>>, r.err, r.val)
    /\ UNCHANGED <<treeVars, storeVars>>

\* PrioritizedReplayBuffer.update_priorities(idxes, priorities)
UpdatePriorities ==
    /\ ret.op = "none"
    /\ cls = "PrioritizedReplayBuffer"
    /\ \E li \in UpdateLens, lp \in UpdateLens :
          \E idxes \in Seqs(-1 .. maxsize, li), priorities \in Seqs(Priorities, lp) :
             LET r == UpdatePrioritiesCall(idxes, priorities) IN
             /\ it_sum' = r.it_sum
             /\ it_min' = r.it_min
             /\ max_priority' = r.max_priority
             /\ ret' = Call("update_priorities", <<idxes, priorities>>, r.err, r.what)
             /\ okmax' = IF r.err = "none" THEN SeqMax(priorities, okmax) ELSE okmax
             /\ passedmax' = SeqMax(priorities, passedmax)
             /\ lastprio' = Assigned(lastprio, idxes, priorities, 1)
    /\ UNCHANGED <<treeVars, vec, cls, maxsize, storage, next_idx, alpha, beta, nadd>>

Next ==
    \/ Add
    \/ Sample
    \/ PrioritizedAdd
    \/ PrioritizedSampleStep
    \/ UpdatePriorities
    \/ Resume

Spec == Init /\ [][Next]_vars

-----------------------------------------------------------------------------
(* Claims about the stores, checked under Spec. *)

Prioritized == cls = "PrioritizedReplayBuffer"

\* C4: after n add calls on a store of capacity C, length() = min(n, C), the
\* cursor is n mod C, the j-th added transition lies in slot j mod C for each
\* of the most recent min(n, C) transitions, the older ones are stored
\* nowhere, and sample returns none of them.
RingOverwrite ==
    /\ Len(storage) = Min(nadd, maxsize)
    /\ next_idx = nadd % maxsize
    /\ \A j \in 0 .. nadd - 1 :
          IF j >= nadd - maxsize
          THEN storage[(j % maxsize) + 1] = j
          ELSE \A s \in 1 .. Len(storage) : storage[s] # j
    /\ (ret.op = "sample" /\ ret.err = "none") =>
          \A k \in 1 .. Len(ret.val.batch) :
             /\ ret.val.batch[k] >= nadd - maxsize
             /\ ret.val.batch[k] < nadd

\* C4 witness: the largest store has been overwritten twice over its
\* capacity, C + 2 adds.
RingOverwriteWitness ==
    /\ ret.op = "add"
    /\ maxsize = MaxSize
    /\ nadd = maxsize + 2
    /\ ret.val = (nadd - 1) % maxsize

\* C5 (as stated): right after add writes slot s of the prioritized store,
\* the mass of s in the sum tree and in the min tree is H^alpha, H the
\* historical maximum of 1.0 and the priorities passed to update_priorities
\* so far: those of the calls that succeeded (okmax), or those of every call
\* (passedmax); either reading is accepted here.
AddWritesHistoricalMax ==
    (Prioritized /\ ret.op = "add") =>
        \E h \in {okmax, passedmax} :
            /\ Leaf(it_sum, ret.val) = Pow(h, alpha)
            /\ Leaf(it_min, ret.val) = Pow(h, alpha)

\* What the code does keep of C5: the slot written by add carries
\* max_priority^alpha, max_priority being the field as update_priorities
\* left it.
AddWritesMaxPriority ==
    (Prioritized /\ ret.op = "add") =>
        /\ ret.err = "none"
        /\ Leaf(it_sum, ret.val) = Pow(max_priority, alpha)
        /\ Leaf(it_min, ret.val) = Pow(max_priority, alpha)

\* C6 (as stated): the mass T that sample spreads its strata over is the
\* total mass of the populated slots 0 .. length()-1, and every populated
\* slot of positive mass is returned for some choice of the random draws.
\* Stated for stores of two transitions or more.
SampleCoversEverySlot ==
    (Prioritized /\ Len(storage) >= 2) =>
        LET n == Len(storage) IN
        /\ Reduce(it_sum, 0, <<n - 1>>) = Ok(LeafFold(it_sum, 0, n))
        /\ \A batch_size \in BatchSizes, s \in 0 .. n - 1 :
              Leaf(it_sum, s) > 0 =>
                 \E draws \in Seqs(0 .. RandomGrid(it_sum, n) - 1, batch_size) :
                    LET r == SampleProportional(it_sum, n, batch_size, draws) IN
                    /\ r.err = "none"
                    /\ \E k \in 1 .. batch_size : r.val[k] = s

\* What the code does instead of C6: the strata cover the mass of slots
\* 0 .. length()-2 only, and the last populated slot is never returned.
SampleSkipsLastSlot ==
    (Prioritized /\ ret.op = "sample" /\ ret.err = "none") =>
        \A k \in 1 .. Len(ret.val.idxes) :
            /\ 0 <= ret.val.idxes[k]
            /\ ret.val.idxes[k] < Len(storage) - 1

\* C7 (as stated): sample(batch_size), batch_size >= 1, ends in an error if
\* length() = 0, and for every length() >= 1 returns a batch of batch_size
\* entries.
SampleFailsIffEmpty ==
    ret.op = "sample" =>
        /\ Len(storage) = 0 => ret.err # "none"
        /\ Len(storage) >= 1 =>
              /\ ret.err = "none"
              /\ Len(ret.val.batch) = ret.args[1]

\* C8 (as stated): an update_priorities call that fails leaves the sum tree,
\* the min tree and max_priority as they were before the call.
UpdatePrioritiesAtomic ==
    [][(ret.op = "none" /\ ret'.op = "update_priorities" /\ ret'.err # "none")
        => (it_sum' = it_sum /\ it_min' = it_min /\ max_priority' = max_priority)]_vars

LengthMismatch(args) == Len(args[1]) # Len(args[2])

BadPriority(args) == \E k \in 1 .. Len(args[2]) : args[2][k] <= 0

BadIndex(args, n) == \E k \in 1 .. Len(args[1]) : ~(0 <= args[1][k] /\ args[1][k] < n)

\* C9: update_priorities(indices, priorities) ends in an error exactly when
\* the lengths differ, some priority is <= 0, or some index is outside
\* [0, length()); the assertion that fails is the length check whenever the
\* lengths differ, and otherwise a check that some element does fail.
UpdateValidates ==
    ret.op = "update_priorities" =>
        LET n == Len(storage) IN
        /\ ret.err # "none" <=>
              (LengthMismatch(ret.args) \/ BadPriority(ret.args) \/ BadIndex(ret.args, n))
        /\ ret.err # "none" => ret.err = "AssertionError"
        /\ LengthMismatch(ret.args) <=> ret.val = "len(idxes) == len(priorities)"
        /\ ret.val = "priority > 0" => BadPriority(ret.args)
        /\ ret.val = "0 <= idx < len(self._storage)" => BadIndex(ret.args, n)

\* C9 witness: a call whose priorities are all valid is rejected for the
\* index of a tree leaf that is not populated: length() <= index < capacity.
UpdateValidatesWitness ==
    /\ ret.op = "update_priorities"
    /\ ret.err = "AssertionError"
    /\ ret.val = "0 <= idx < len(self._storage)"
    /\ ~BadPriority(ret.args)
    /\ Len(ret.args[1]) = 2
    /\ ret.args[1][1] \in 0 .. Len(storage) - 1
    /\ ret.args[1][2] = Len(storage)
    /\ Len(storage) < it_sum.capacity

\* The least mass among the populated slots.
MinMass == CHOOSE m \in {Leaf(it_sum, i) : i \in 0 .. Len(storage) - 1} :
               \A i \in 0 .. Len(storage) - 1 : m <= Leaf(it_sum, i)

\* C10: every weight sample returns is in (0, 1]: the mass of the sampled
\* slot is positive and not below the root of the min tree; and a batch that
\* holds a slot of the least mass has 1 as its largest weight.
WeightsBounded ==
    (Prioritized /\ ret.op = "sample" /\ ret.err = "none") =>
        /\ \A k \in 1 .. Len(ret.val.weights) :
              LET w == ret.val.weights[k]
                  s == ret.val.idxes[k]
              IN  /\ w[2] > 0
                  /\ 0 < w[1]
                  /\ w[1] <= w[2]
                  /\ Leaf(it_sum, s) > 0
                  /\ Leaf(it_sum, s) >= it_min.value[1]
        /\ (\E k \in 1 .. Len(ret.val.idxes) : Leaf(it_sum, ret.val.idxes[k]) = MinMass)
              => \E k \in 1 .. Len(ret.val.weights) :
                    ret.val.weights[k][1] = ret.val.weights[k][2]

\* C10 witness: with beta > 0 and unequal masses, a batch holds the slot of
\* the least mass and its weight is 1.
WeightsBoundedWitness ==
    /\ Prioritized
    /\ ret.op = "sample"
    /\ ret.err = "none"
    /\ beta > 0
    /\ \E i \in 0 .. Len(storage) - 1 : Leaf(it_sum, i) > MinMass
    /\ \E k \in 1 .. Len(ret.val.idxes) :
          /\ Leaf(it_sum, ret.val.idxes[k]) = MinMass
          /\ ret.val.weights[k][1] = ret.val.weights[k][2]

\* A batch can also carry a weight below 1.
WeightsBelowOneReached ==
    /\ Prioritized
    /\ ret.op = "sample"
    /\ ret.err = "none"
    /\ \E k \in 1 .. Len(ret.val.weights) : ret.val.weights[k][1] < ret.val.weights[k][2]

-----------------------------------------------------------------------------
(* SpecTreeGet: one SegmentTree, driven by set and get on valid indices.    *)

\* tree[i] with i in [0, capacity)
TreeGet ==
    \E i \in 0 .. tree.capacity - 1 :
        LET r == GetItem(tree, i) IN
        /\ ret.op = "none"
        /\ ret' = Call("get", <<i>>, r.err, r.val)
        /\ UNCHANGED <<treeVars, storeVars>>

TreeGetNext == TreeSet \/ TreeGet \/ Resume

SpecTreeGet == TreeInit /\ [][TreeGetNext]_vars

\* What the code does keep of C15: while every set has its index in
\* [0, capacity), every leaf reads as its own latest set.
LeavesAreLatestSets ==
    \A i \in 0 .. tree.capacity - 1 : GetItem(tree, i) = Ok(written[i])

-----------------------------------------------------------------------------
(* SpecTreeAny: one SegmentTree, get on valid indices and set with an      *)
(* index in range or not (written follows the sets of valid indices).  The  *)
(* list value has 2 * capacity entries, so idx + capacity resolves as a     *)
(* Python list index for idx in [-3 * capacity, capacity): -1 is the        *)
(* internal node capacity - 1, -capacity is the unused value[0] and         *)
(* -capacity - 1 is the last leaf.                                          *)

\* tree[i] = v with i from -capacity - 1 to capacity
TreeSetAny ==
    \E i \in -tree.capacity - 1 .. tree.capacity, v \in LeafValues :
        LET r == SetItem(tree, i, v) IN
        /\ ret.op = "none"
        /\ tree' = r.tree
        /\ ret' = Call("set", <<i, v>>, r.err, 0)
        /\ written' = IF r.err = "none" /\ i \in 0 .. tree.capacity - 1
                      THEN [written EXCEPT ![i] = v] ELSE written
        /\ UNCHANGED storeVars

TreeAnyNext == TreeSetAny \/ TreeGet \/ Resume

SpecTreeAny == TreeInit /\ [][TreeAnyNext]_vars

\* C12: a set whose index is outside [0, capacity) ends in an error and
\* leaves every entry of the tree as it was.
SetRejectsBadIndex ==
    [][(ret.op = "none" /\ ret'.op = "set"
            /\ ret'.args[1] \notin 0 .. tree.capacity - 1)
        => (ret'.err # "none" /\ tree' = tree)]_vars

\* What the code does keep of C12: an index at or past capacity ends in
\* IndexError with the tree as it was.
SetRejectsFarIndex ==
    [][(ret.op = "none" /\ ret'.op = "set" /\ ret'.args[1] >= tree.capacity)
        => (ret'.err = "IndexError" /\ tree' = tree)]_vars

\* C15: after any sequence of set calls, get(i) on a valid index returns the
\* value of the most recent set(i, v), the neutral element if i was never
\* set; a set at another index j # i leaves it alone.
LastWriteWins ==
    ret.op = "get" => ret.err = "none" /\ ret.val = written[ret.args[1]]

-----------------------------------------------------------------------------
(* VecReplayBuffer.  Arrays are functions on 0-based index ranges.  One     *)
(* frame, an (nc, h, w) block of an observation, is one number: the frames  *)
(* handed to add are positive and pairwise different, 0 is the block of     *)
(* zeros.  An entry of np.empty memory that was never written is -1 (in a   *)
(* segment array: the segment <<name, -1, -1>>).                            *)

\* The numbers of environments, of steps per segment and of stacked frames.
NEnvs == {1, 2}
NSteps == {1, 2}
NStacks == {1, 2}
\* The capacities (size) a VecReplayBuffer is constructed with.
VecSizes == 1 .. 4
\* The steps per segment and the stacked frames _stack_obs is applied to in
\* SpecStack.
StackSteps == {1, 2, 3}
StackStacks == {1, 2, 3}

Envs(v) == 0 .. v.nenv - 1

\* VecReplayBuffer.__init__(env, nenv, nsteps, size, device), env.k = nstack:
\* np.empty with a negative dimension raises ValueError.
NewVec(nenv, nsteps, nstack, size) ==
    LET slots == size \div nsteps IN
    IF slots < 0 THEN Raise("ValueError")
    ELSE Ok([nenv |-> nenv, nsteps |-> nsteps, nstack |-> nstack, size |-> slots,
             enc_o |-> [s \in 0 .. slots - 1 |-> [e \in 0 .. nenv - 1 |->
                          [j \in 0 .. nsteps + nstack - 1 |-> -1]]],
             a |-> [s \in 0 .. slots - 1 |-> [e \in 0 .. nenv - 1 |-> <<"a", -1, -1>>]],
             r |-> [s \in 0 .. slots - 1 |-> [e \in 0 .. nenv - 1 |-> <<"r", -1, -1>>]],
             p |-> [s \in 0 .. slots - 1 |-> [e \in 0 .. nenv - 1 |-> <<"p", -1, -1>>]],
             done |-> [s \in 0 .. slots - 1 |-> [e \in 0 .. nenv - 1 |->
                          [t \in 0 .. nsteps - 1 |-> -1]]],
             next_idx |-> 0,
             nonempty_num |-> 0])

\* A plausible slip of add: the cursor is not wrapped.
VecAddNoWrap(v, enc_o, a, r, p, done) ==
    IF v.next_idx \notin 0 .. v.size - 1 THEN [err |-> "IndexError", vec |-> v]
    ELSE [err |-> "none",
          vec |-> [v EXCEPT !.enc_o[v.next_idx] = enc_o,
                            !.a[v.next_idx] = a,
                            !.r[v.next_idx] = r,
                            !.p[v.next_idx] = p,
                            !.done[v.next_idx] = done,
                            !.next_idx = v.next_idx + 1,
                            !.nonempty_num = Min(v.size, v.nonempty_num + 1)]]

\* VecReplayBuffer.add(enc_o, a, r, p, done): the first assignment indexes
\* axis 0 of an array of size slots, IndexError when there is none.
VecAdd(v, enc_o, a, r, p, done) ==
    IF v.next_idx \notin 0 .. v.size - 1 THEN [err |-> "IndexError", vec |-> v]
    ELSE [err |-> "none",
          vec |-> [v EXCEPT !.enc_o[v.next_idx] = enc_o,
                            !.a[v.next_idx] = a,
                            !.r[v.next_idx] = r,
                            !.p[v.next_idx] = p,
                            !.done[v.next_idx] = done,
                            !.next_idx = (v.next_idx + 1) % v.size,
                            !.nonempty_num = Min(v.size, v.nonempty_num + 1)]]

\* VecReplayBuffer._take(x, idx): out[i] = x[idx[i], i]
Take(v, x, idx) == [i \in Envs(v) |-> x[idx[i]][i]]

\* mask = np.ones(...); mask[:, 1:] = 1.0 - dones
MaskInit(v, dones) ==
    [e \in Envs(v) |-> [t \in 0 .. v.nsteps |->
        IF t = 0 THEN 1 ELSE 1 - dones[e][t - 1]]]

\* A plausible slip of the mask update: the product runs in place from left
\* to right, each step reading the entry just written.
RECURSIVE RunningProduct(_, _)
RunningProduct(m, t) == IF t = 0 THEN m[0] ELSE m[t] * RunningProduct(m, t - 1)

MaskShiftInPlace(v, mask) ==
    [e \in Envs(v) |-> [t \in 0 .. v.nsteps |-> RunningProduct(mask[e], t)]]

\* mask[:, 1:] *= mask[:, :-1]: numpy computes the right-hand side from the
\* entries as they were before the assignment.
MaskShift(v, mask) ==
    [e \in Envs(v) |-> [t \in 0 .. v.nsteps |->
        IF t = 0 THEN mask[e][0] ELSE mask[e][t] * mask[e][t - 1]]]

\* A plausible slip of the channel test: <= for <.
MaskedLe(v, i) == i <= v.nstack - 1

\* if i < self.nstack - 1
Masked(v, i) == i < v.nstack - 1

\* The loop of _stack_obs from channel i down to 0.  obs[e][t][c] is the
\* block of channel c at output step t; applied[c] is the mask the loop
\* multiplied channel c by (history, not part of the array returned).
RECURSIVE StackLoop(_, _, _, _, _, _)
StackLoop(v, enc_obs, obs, mask, applied, i) ==
    IF i < 0 THEN [obs |-> obs, applied |-> applied]
    ELSE LET copied == [e \in Envs(v) |-> [t \in 0 .. v.nsteps |->
                           [obs[e][t] EXCEPT ![i] = enc_obs[e][t + i]]]]
         IN  IF Masked(v, i)
             THEN StackLoop(v, enc_obs,
                            [e \in Envs(v) |-> [t \in 0 .. v.nsteps |->
                                [copied[e][t] EXCEPT ![i] = copied[e][t][i] * mask[e][t]]]],
                            MaskShift(v, mask),
                            [applied EXCEPT ![i] = mask],
                            i - 1)
             ELSE StackLoop(v, enc_obs, copied, mask, applied, i - 1)

\* VecReplayBuffer._stack_obs(enc_obs, dones)
StackObs(v, enc_obs, dones) ==
    StackLoop(v, enc_obs,
              [e \in Envs(v) |-> [t \in 0 .. v.nsteps |-> [c \in 0 .. v.nstack - 1 |-> 0]]],
              MaskInit(v, dones),
              [c \in 0 .. v.nstack - 1 |->
                  [e \in Envs(v) |-> [t \in 0 .. v.nsteps |-> 1]]],
              v.nstack - 1)

\* VecReplayBuffer.sample() with idx the array np.random.randint drew;
\* randint(0, 0, nenv) raises ValueError.
VecSample(v, idx) ==
    LET b_done == Take(v, v.done, idx)
        stacked == StackObs(v, Take(v, v.enc_o, idx), b_done)
    IN  Ok([idx |-> idx,
            o |-> stacked.obs,
            a |-> Take(v, v.a, idx),
            r |-> Take(v, v.r, idx),
            p |-> Take(v, v.p, idx),
            done |-> b_done,
            applied |-> stacked.applied])

\* The frames of the n-th add call (from 0): positive, pairwise different.
Frames(v, n) ==
    [e \in Envs(v) |-> [j \in 0 .. v.nsteps + v.nstack - 1 |->
        1 + j + (v.nsteps + v.nstack) * (e + v.nenv * n)]]

\* The actions, rewards or policies of the n-th add call, one segment per
\* environment.
Segments(v, name, n) == [e \in Envs(v) |-> <<name, n, e>>]

DoneArrays(v) == [Envs(v) -> [0 .. v.nsteps - 1 -> {0, 1}]]

-----------------------------------------------------------------------------
(* SpecVec: one VecReplayBuffer constructed with size > 0, driven by add    *)
(* and sample.                                                              *)

VecInit ==
    /\ tree = NewTree(1, "add")
    /\ written = Unwritten(tree)
    /\ ret = NoCall
    /\ maxsize = 0
    /\ storage = <<>>
    /\ next_idx = 0
    /\ it_sum = NewTree(1, "add")
    /\ it_min = NewTree(1, "min")
    /\ max_priority = 1
    /\ alpha = 0
    /\ beta = 0
    /\ nadd = 0
    /\ okmax = 1
    /\ passedmax = 1
    /\ lastprio = <<>>
    /\ cls = "VecReplayBuffer"
    /\ \E nenv \in NEnvs, nsteps \in NSteps, nstack \in NStacks, size \in VecSizes :
          vec = NewVec(nenv, nsteps, nstack, size).val

vecOther == <<treeVars, cls, maxsize, storage, next_idx, it_sum, it_min,
              max_priority, alpha, beta, okmax, passedmax, lastprio>>

\* VecReplayBuffer.add(enc_o, a, r, p, done)
VecAddStep ==
    /\ ret.op = "none"
    /\ cls = "VecReplayBuffer"
    /\ nadd < MaxAdds
    /\ \E done \in DoneArrays(vec) :
          LET r == VecAdd(vec, Frames(vec, nadd), Segments(vec, "a", nadd),
                          Segments(vec, "r", nadd), Segments(vec, "p", nadd), done)
          IN  /\ vec' = r.vec
              /\ ret' = Call("add", <<nadd, done>>, r.err, vec.next_idx)
    /\ nadd' = nadd + 1
    /\ UNCHANGED vecOther

\* VecReplayBuffer.sample()
VecSampleStep ==
    /\ ret.op = "none"
    /\ cls = "VecReplayBuffer"
    /\ IF vec.nonempty_num <= 0
       THEN ret' = Call("sample", <<>>, "ValueError", 0)
       ELSE \E idx \in [Envs(vec) -> 0 .. vec.nonempty_num - 1] :
               LET r == VecSample(vec, idx) IN
               ret' = Call("sample", <<>>, r.err, r.val)
    /\ UNCHANGED <<treeVars, storeVars>>

VecNext == VecAddStep \/ VecSampleStep \/ Resume

SpecVec == VecInit /\ [][VecNext]_vars

-----------------------------------------------------------------------------
(* SpecStack: _stack_obs applied to the encoded frames and the done flags   *)
(* of one segment per environment.                                          *)

StackInit ==
    /\ tree = NewTree(1, "add")
    /\ written = Unwritten(tree)
    /\ ret = NoCall
    /\ maxsize = 0
    /\ storage = <<>>
    /\ next_idx = 0
    /\ it_sum = NewTree(1, "add")
    /\ it_min = NewTree(1, "min")
    /\ max_priority = 1
    /\ alpha = 0
    /\ beta = 0
    /\ nadd = 0
    /\ okmax = 1
    /\ passedmax = 1
    /\ lastprio = <<>>
    /\ cls = "VecReplayBuffer"
    /\ \E nenv \in NEnvs, nsteps \in StackSteps, nstack \in StackStacks :
          vec = NewVec(nenv, nsteps, nstack, nsteps).val

\* self._stack_obs(enc_obs, dones)
StackObsStep ==
    /\ ret.op = "none"
    /\ \E n \in {0, 1}, dones \in DoneArrays(vec) :
          ret' = Call("_stack_obs", <<Frames(vec, n), dones>>, "none",
                      StackObs(vec, Frames(vec, n), dones))
    /\ UNCHANGED <<treeVars, storeVars>>

StackNext == StackObsStep \/ Resume

SpecStack == StackInit /\ [][StackNext]_vars

\* No done flag of d at the steps lo .. hi.
NoneDone(d, lo, hi) == \A s \in lo .. hi : d[s] = 0

\* The product of (1 - d[s]) over the steps s in lo .. hi.
RECURSIVE NotDoneProduct(_, _, _)
NotDoneProduct(d, lo, hi) ==
    IF lo > hi THEN 1 ELSE (1 - d[hi]) * NotDoneProduct(d, lo, hi - 1)

\* The done arrays that agree with dones on environment e.
SameFor(e, dones) == {d \in DoneArrays(vec) : d[e] = dones[e]}

\* C11: block (e, t, i) of the output is enc_obs[e, t + i] if no done flag of
\* environment e is set at a step s with max(0, t - (nstack - 1 - i)) <= s <=
\* t - 1, and zeros otherwise; the newest channel is never masked; the output
\* of environment e depends on the frames and flags of environment e alone.
FrameStackMasking ==
    ret.op = "_stack_obs" =>
        LET enc_obs == ret.args[1]
            dones == ret.args[2]
            obs == ret.val.obs
        IN  \A e \in Envs(vec) :
               /\ \A t \in 0 .. vec.nsteps, i \in 0 .. vec.nstack - 1 :
                     obs[e][t][i] =
                        IF NoneDone(dones[e], Max(0, t - (vec.nstack - 1 - i)), t - 1)
                        THEN enc_obs[e][t + i] ELSE 0
               /\ \A t \in 0 .. vec.nsteps :
                     obs[e][t][vec.nstack - 1] = enc_obs[e][t + vec.nstack - 1]
               /\ \A d \in SameFor(e, dones) :
                     StackObs(vec, enc_obs, d).obs[e] = obs[e]

\* C11 witness: three stacked frames over three steps, environment 0 ends an
\* episode at step 1 and environment 1 never; at the last output step of
\* environment 0 the oldest channel is zeros and the middle one is a frame.
FrameStackMaskingWitness ==
    /\ ret.op = "_stack_obs"
    /\ vec.nenv = 2 /\ vec.nsteps = 3 /\ vec.nstack = 3
    /\ ret.args[2][0] = [t \in 0 .. 2 |-> IF t = 1 THEN 1 ELSE 0]
    /\ ret.args[2][1] = [t \in 0 .. 2 |-> 0]
    /\ ret.val.obs[0][2][1] = 0
    /\ ret.val.obs[0][3][0] = 0
    /\ ret.val.obs[0][3][1] = ret.args[1][0][4]
    /\ ret.val.obs[0][3][1] > 0
    /\ \A t \in 0 .. 3, i \in 0 .. 2 : ret.val.obs[1][t][i] > 0

\* C20: the mask of every older channel is mask[0] = 1, mask[t] =
\* mask[t-1] * (1 - done[t-1]), the product of (1 - done[s]) over all s < t;
\* once a done flag is set at step s the older channels are zeros at every
\* later output step t > s.
CumulativeMask ==
    ret.op = "_stack_obs" =>
        \A e \in Envs(vec), i \in 0 .. vec.nstack - 2, t \in 0 .. vec.nsteps :
           /\ ret.val.applied[i][e][t] = NotDoneProduct(ret.args[2][e], 0, t - 1)
           /\ ~NoneDone(ret.args[2][e], 0, t - 1) => ret.val.obs[e][t][i] = 0

\* C20 as the code has it: the mask of the channel that is d = nstack - 1 - i
\* frames old is, at output step t, the product of (1 - done[s]) over the d
\* steps before t, max(0, t - d) <= s <= t - 1; a done flag at step s zeroes
\* that channel at the output steps s < t <= s + d and not after.
WindowedMask ==
    ret.op = "_stack_obs" =>
        \A e \in Envs(vec), i \in 0 .. vec.nstack - 2, t \in 0 .. vec.nsteps :
           LET d == vec.nstack - 1 - i
               dones == ret.args[2][e]
           IN  /\ ret.val.applied[i][e][t] = NotDoneProduct(dones, Max(0, t - d), t - 1)
               /\ ret.val.applied[i][e][0] = 1
               /\ \A s \in 0 .. t - 1 :
                     dones[s] = 1 /\ t <= s + d => ret.val.obs[e][t][i] = 0
               /\ NoneDone(dones, Max(0, t - d), t - 1) => ret.val.obs[e][t][i] > 0

\* C20 witness: with three stacked frames over three steps and a single done
\* flag at step 0, the middle channel is masked at step 1 only and the oldest
\* one at steps 1 and 2; both are frames again at step 3.
WindowedMaskWitness ==
    /\ ret.op = "_stack_obs"
    /\ vec.nsteps = 3 /\ vec.nstack = 3
    /\ ret.args[2][0] = [t \in 0 .. 2 |-> IF t = 0 THEN 1 ELSE 0]
    /\ ret.val.applied[1][0] = [t \in 0 .. 3 |-> IF t = 1 THEN 0 ELSE 1]
    /\ ret.val.applied[0][0] = [t \in 0 .. 3 |-> IF t \in {1, 2} THEN 0 ELSE 1]
    /\ ret.val.obs[0][3][0] > 0
    /\ ret.val.obs[0][2][0] = 0

-----------------------------------------------------------------------------
(* SpecCtor: the three constructors called with any capacity, positive or   *)
(* not, and add on the store they return.                                   *)

\* The capacities (size) handed to the constructors.
BadSizes == {-2, -1, 0}
CtorSizes == BadSizes \cup (1 .. MaxSize)
VecCtorSizes == BadSizes \cup VecSizes

CtorInit ==
    /\ tree = NewTree(1, "add")
    /\ written = Unwritten(tree)
    /\ ret = NoCall
    /\ NoStore

\* ReplayBuffer(size, device)
NewReplayBuffer ==
    /\ ret.op = "none"
    /\ cls = "none"
    /\ \E size \in CtorSizes :
          /\ maxsize' = size
          /\ ret' = Call("__init__", <<"ReplayBuffer", size>>, "none", 0)
    /\ cls' = "ReplayBuffer"
    /\ storage' = <<>>
    /\ next_idx' = 0
    /\ UNCHANGED <<treeVars, vec, it_sum, it_min, max_priority, alpha, beta, nadd,
                   okmax, passedmax, lastprio>>

\* PrioritizedReplayBuffer(size, device, alpha, beta)
NewPrioritizedReplayBuffer ==
    /\ ret.op = "none"
    /\ cls = "none"
    /\ \E size \in CtorSizes, a \in Alphas, b \in Betas :
          /\ maxsize' = size
          /\ alpha' = a
          /\ beta' = b
          /\ it_sum' = NewTree(GrowCapacity(1, size), "add")
          /\ it_min' = NewTree(GrowCapacity(1, size), "min")
          /\ ret' = Call("__init__", <<"PrioritizedReplayBuffer", size>>, "none", 0)
    /\ cls' = "PrioritizedReplayBuffer"
    /\ storage' = <<>>
    /\ next_idx' = 0
    /\ max_priority' = 1
    /\ UNCHANGED <<treeVars, vec, nadd, okmax, passedmax, lastprio>>

\* VecReplayBuffer(env, nenv, nsteps, size, device)
NewVecReplayBuffer ==
    /\ ret.op = "none"
    /\ cls = "none"
    /\ \E nenv \in NEnvs, nsteps \in NSteps, nstack \in NStacks, size \in VecCtorSizes :
          LET r == NewVec(nenv, nsteps, nstack, size) IN
          /\ ret' = Call("__init__", <<"VecReplayBuffer", size>>, r.err, 0)
          /\ cls' = IF r.err = "none" THEN "VecReplayBuffer" ELSE cls
          /\ vec' = IF r.err = "none" THEN r.val ELSE vec
    /\ UNCHANGED <<treeVars, maxsize, storage, next_idx, it_sum, it_min, max_priority,
                   alpha, beta, nadd, okmax, passedmax, lastprio>>

CtorNext ==
    \/ NewReplayBuffer
    \/ NewPrioritizedReplayBuffer
    \/ NewVecReplayBuffer
    \/ Add
    \/ PrioritizedAdd
    \/ VecAddStep
    \/ Resume

SpecCtor == CtorInit /\ [][CtorNext]_vars

\* C13: a constructor called with capacity <= 0 fails, so no store with
\* capacity <= 0 exists.
ConstructionRejectsBadCapacity ==
    /\ ret.op = "__init__" /\ ret.args[2] <= 0 => ret.err # "none" /\ cls = "none"
    /\ cls \in {"ReplayBuffer", "PrioritizedReplayBuffer"} => maxsize > 0

\* What the code does keep of C13: a VecReplayBuffer is not constructed with
\* size < 0 (np.empty rejects the negative dimension); with size = 0 it is.
VecRejectsNegativeCapacity ==
    ret.op = "__init__" /\ ret.args[1] = "VecReplayBuffer" /\ ret.args[2] < 0
        => ret.err = "ValueError" /\ cls = "none"

-----------------------------------------------------------------------------
(* Claims about add, checked under SpecVec (and, for the two other stores,  *)
(* under Spec).                                                             *)

\* C14: on a store constructed with capacity > 0, a VecReplayBuffer with
\* capacity < nsteps included, every add call succeeds.
AddNeverFails == ret.op = "add" => ret.err = "none"

\* What the code does keep of C14: add on a VecReplayBuffer fails exactly
\* when size // nsteps = 0 slots were allocated, and then changes nothing.
VecAddFailsIffNoSlot ==
    ret.op = "add" =>
        /\ ret.err = "none" <=> vec.size >= 1
        /\ vec.size = 0 => ret.err = "IndexError" /\ vec.nonempty_num = 0 /\ vec.next_idx = 0

-----------------------------------------------------------------------------
(* Claims about the prioritized store's bookkeeping, checked under Spec.    *)

SampledIndicesValid ==
    Prioritized /\ ret.op = "sample" /\ ret.err = "none" =>
        /\ \A k \in 1 .. Len(ret.val.idxes) :
              ret.val.idxes[k] \in 0 .. Len(storage) - 1
        /\ \A priorities \in Seqs(Priorities \ {0}, Len(ret.val.idxes)) :
              UpdatePrioritiesCall(ret.val.idxes, priorities).err = "none"

\* C17 witness: a sample of the two indices 0 and 1 from a store of three
\* transitions whose trees have four leaves, the last one unpopulated.
SampledIndicesValidWitness ==
    /\ Prioritized
    /\ ret.op = "sample"
    /\ ret.err = "none"
    /\ ret.val.idxes = <<0, 1>>
    /\ Len(storage) = 3
    /\ it_sum.capacity = 4
    /\ Leaf(it_sum, 3) = 0

\* C18: max_priority is the maximum of 1.0 and every priority handed to a
\* successful update_priorities call; add and sample leave it alone.
MaxPriorityOfSuccessfulUpdates == Prioritized => max_priority = okmax

\* What the code does keep of C18: max_priority starts at 1, never
\* decreases, is left alone by add and sample, and lies between the maximum
\* over the successful calls and the maximum over all calls.
MaxPriorityMonotone ==
    [][/\ max_priority' >= max_priority
       /\ ret'.op \in {"add", "sample"} => max_priority' = max_priority
       /\ Prioritized => okmax' <= max_priority' /\ max_priority' <= passedmax']_vars

-----------------------------------------------------------------------------
(* SpecWide: one prioritized store of size 3, the smallest whose trees (of  *)
(* 4 leaves) keep a leaf that no slot uses; driven by add, sample and       *)
(* update_priorities.                                                       *)

WideInit ==
    /\ tree = NewTree(1, "add")
    /\ written = Unwritten(tree)
    /\ vec = NoVec
    /\ lastprio = <<>>
    /\ ret = NoCall
    /\ nadd = 0
    /\ okmax = 1
    /\ passedmax = 1
    /\ InitPrioritizedReplayBuffer(3, 1, 1)

WideNext == PrioritizedAdd \/ PrioritizedSampleStep \/ UpdatePriorities \/ Resume

SpecWide == WideInit /\ [][WideNext]_vars

-----------------------------------------------------------------------------
(* Claims about the VecReplayBuffer's ring, checked under SpecVec. *)

\* The latest of the add calls 0 .. n-1 that wrote slot s of S slots.
LatestAddOf(s, n, S) ==
    CHOOSE j \in 0 .. n - 1 : j % S = s /\ \A k \in j + 1 .. n - 1 : k % S # s

\* After n add calls the cursor is n mod S and min(n, S) slots are
\* populated; a populated slot holds, for every environment, the segments of
\* the latest add that wrote it; the other slots were never written.
VecSlots ==
    /\ vec.next_idx = nadd % vec.size
    /\ vec.nonempty_num = Min(nadd, vec.size)
    /\ \A s \in 0 .. vec.size - 1 :
          IF s < vec.nonempty_num
          THEN LET j == LatestAddOf(s, nadd, vec.size) IN
               /\ vec.enc_o[s] = Frames(vec, j)
               /\ vec.a[s] = Segments(vec, "a", j)
               /\ vec.r[s] = Segments(vec, "r", j)
               /\ vec.p[s] = Segments(vec, "p", j)
               /\ vec.done[s] \in DoneArrays(vec)
          ELSE /\ vec.enc_o[s] = NewVec(vec.nenv, vec.nsteps, vec.nstack, vec.nsteps).val.enc_o[0]
               /\ vec.a[s] = [e \in Envs(vec) |-> <<"a", -1, -1>>]
               /\ vec.r[s] = [e \in Envs(vec) |-> <<"r", -1, -1>>]
               /\ vec.p[s] = [e \in Envs(vec) |-> <<"p", -1, -1>>]
               /\ vec.done[s] = [e \in Envs(vec) |-> [t \in 0 .. vec.nsteps - 1 |-> -1]]

\* An add writes the segments of every environment into the slot at the
\* cursor and leaves every other slot as it was.
VecAddWrites ==
    ret'.op = "add" =>
        /\ ret'.err = "none"
        /\ ret'.val = vec.next_idx
        /\ vec'.enc_o[vec.next_idx] = Frames(vec, nadd)
        /\ vec'.a[vec.next_idx] = Segments(vec, "a", nadd)
        /\ vec'.r[vec.next_idx] = Segments(vec, "r", nadd)
        /\ vec'.p[vec.next_idx] = Segments(vec, "p", nadd)
        /\ vec'.done[vec.next_idx] = ret'.args[2]
        /\ \A s \in (0 .. vec.size - 1) \ {vec.next_idx} :
              /\ vec'.enc_o[s] = vec.enc_o[s]
              /\ vec'.a[s] = vec.a[s]
              /\ vec'.r[s] = vec.r[s]
              /\ vec'.p[s] = vec.p[s]
              /\ vec'.done[s] = vec.done[s]

\* A sample reads, for each environment e, all five arrays at one slot
\* idx[e] < nonempty_num, a slot that was written.
VecSampleReads ==
    ret.op = "sample" /\ ret.err = "none" =>
        \A e \in Envs(vec) :
           LET s == ret.val.idx[e] IN
           /\ s \in 0 .. vec.nonempty_num - 1
           /\ ret.val.a[e] = vec.a[s][e]
           /\ ret.val.r[e] = vec.r[s][e]
           /\ ret.val.p[e] = vec.p[s][e]
           /\ ret.val.done[e] = vec.done[s][e]
           /\ \A t \in 0 .. vec.nsteps :
                 ret.val.o[e][t][vec.nstack - 1] = vec.enc_o[s][e][t + vec.nstack - 1]
           /\ ret.val.a[e][2] = ret.val.r[e][2] /\ ret.val.a[e][2] = ret.val.p[e][2]
           /\ ret.val.a[e][2] >= 0
           /\ ret.val.a[e][2] % vec.size = s
           /\ \A t \in 0 .. vec.nsteps - 1 : ret.val.done[e][t] \in {0, 1}
           /\ \A t \in 0 .. vec.nsteps, i \in 0 .. vec.nstack - 1 : ret.val.o[e][t][i] >= 0

\* C19: with S = size // nsteps >= 1 slots, after n adds the one cursor is
\* n mod S and min(n, S) slots are populated; each add writes every
\* environment's segment into the same slot and no other; sample reads, per
\* environment, all arrays at one slot index below the populated count.
VecCursorDiscipline ==
    [][vec.size >= 1 => VecSlots' /\ VecAddWrites /\ VecSampleReads']_vars

\* C19 witness: two slots, three adds (slot 0 overwritten), and a sample
\* that reads slot 0 for environment 0 and slot 1 for environment 1.
VecCursorDisciplineWitness ==
    /\ cls = "VecReplayBuffer"
    /\ vec.size = 2
    /\ vec.nenv = 2
    /\ nadd = 3
    /\ vec.next_idx = 1
    /\ vec.nonempty_num = 2
    /\ ret.op = "sample"
    /\ ret.err = "none"
    /\ ret.val.idx = [e \in 0 .. 1 |-> e]
    /\ ret.val.a = [e \in 0 .. 1 |-> IF e = 0 THEN <<"a", 2, 0>> ELSE <<"a", 1, 1>>]

=============================================================================
